---- MODULE Spec2Model ----
(***************************************************************************)
(* Student finance tracker (src/app.py): the user and transaction tables   *)
(* of the SQLite store, the login state of each browser, and the request   *)
(* handlers index, transfer_to_tuition, delete_transaction, login,         *)
(* register and logout.  One action is one whole HTTP request, its         *)
(* commit or rollback included.                                            *)
(*                                                                         *)
(* Amounts are floats in the code; here they are integers, and the inputs  *)
(* are chosen so that amount * percent / 100 is exact.  Form fields are    *)
(* drawn from values that parse (float(), strptime() succeed).             *)
(***************************************************************************)
EXTENDS Integers, Sequences, FiniteSets, TLC

\* ---------------------------------------------------------------- bounds
\* largest number of rows the store holds when the application starts
MaxRows == 2

\* ------------------------------------------------------------- constants
\* NULL in an integer column / the anonymous user
NoUser == 0
\* datetime.utcnow().date(), later than every stored date
Today == 3

Clients == {"c1", "c2"}
Usernames == {"alice", "bob", "carol"}
Passwords == {"pa", "pb"}
Types == {"Income", "Expense"}
Categories == {"Food", "Tuition"}
Amounts == {0 - 500, 1000}
TransferAmounts == {0 - 500, 0, 1000}
Percents == {0, 30, 100}
DeleteIds == 1 .. 6

\* request.form['description'] and the two annotated forms of lines 232, 244
Plain(text) == [text |-> text, note |-> "none", pct |-> 0]
Annotated(text, note, pct) == [text |-> text, note |-> note, pct |-> pct]

VARIABLES user_table, transaction_table, session, last
vars == <<user_table, transaction_table, session, last>>

\* ----------------------------------------------------------------- store
\* Transaction(...) as the handlers call it: id and user_id are never passed
Transaction(date, type, category, description, amount, allocation) ==
    [id |-> NoUser, date |-> date, type |-> type, category |-> category,
     description |-> description, amount |-> amount,
     allocation |-> allocation, user_id |-> NoUser]

\* the row satisfies the nullable=False columns of the table
NotNullOK(row) == row.user_id # NoUser

\* integer primary key: one more than the largest id in the table
NextId(table) ==
    IF table = {} THEN 1
    ELSE (CHOOSE i \in {r.id : r \in table} : \A r \in table : r.id <= i) + 1

\* the INSERTs of one flush, in the order of db.session.add; stops at the
\* first row the store rejects
RECURSIVE Flush(_, _)
Flush(table, pending) ==
    IF pending = <<>> THEN [ok |-> TRUE, table |-> table]
    ELSE IF ~NotNullOK(Head(pending)) THEN [ok |-> FALSE, table |-> table]
    ELSE Flush(table \cup {[Head(pending) EXCEPT !.id = NextId(table)]},
               Tail(pending))

\* db.session.commit(): all pending rows or, on IntegrityError, none
Commit(table, pending) ==
    LET f == Flush(table, pending)
    IN  IF f.ok THEN f ELSE [ok |-> FALSE, table |-> table]

\* ---------------------------------------------------------------- summary
RECURSIVE SumAmounts(_)
SumAmounts(seq) ==
    IF seq = <<>> THEN 0 ELSE Head(seq).amount + SumAmounts(Tail(seq))

\* Transaction.query.order_by(Transaction.date.desc()).all(); rows of one
\* date come in id order
RECURSIVE OrderByDateDesc(_)
OrderByDateDesc(table) ==
    IF table = {} THEN <<>>
    ELSE LET first == CHOOSE r \in table : \A q \in table :
                          \/ r.date > q.date
                          \/ (r.date = q.date /\ r.id <= q.id)
         IN  <<first>> \o OrderByDateDesc(table \ {first})

Abs(n) == IF n < 0 THEN 0 - n ELSE n

\* category -> sum(amount) of a grouped query
GroupSum(table) ==
    [c \in {r.category : r \in table} |->
        SumAmounts(OrderByDateDesc({r \in table : r.category = c}))]

\* a plausible slip: general_expenses sums every Expense row, the Tuition
\* ones included
get_financial_summary_all_expenses(table) ==
    LET transactions == OrderByDateDesc(table)
        IsTuitionCost(t) == t.type = "Expense" /\ t.category = "Tuition"
        IsTuitionAid(t) == t.type = "Income" /\ t.allocation = "Tuition"
        IsGeneralIncome(t) == t.type = "Income" /\ t.allocation = "General"
        IsGeneralExpense(t) == t.type = "Expense"
        total_tuition_cost == SumAmounts(SelectSeq(transactions, IsTuitionCost))
        tuition_aid_applied == SumAmounts(SelectSeq(transactions, IsTuitionAid))
        general_income == SumAmounts(SelectSeq(transactions, IsGeneralIncome))
        general_expenses == SumAmounts(SelectSeq(transactions, IsGeneralExpense))
        income_categories == GroupSum({t \in table : IsGeneralIncome(t)})
        expense_categories == GroupSum({t \in table : IsGeneralExpense(t)})
    IN  [shown |-> TRUE,
         transactions |-> transactions,
         general_income |-> general_income,
         general_expenses |-> general_expenses,
         total_balance |-> general_income - general_expenses,
         income_values |-> income_categories,
         expense_values |-> [c \in DOMAIN expense_categories |->
                                Abs(expense_categories[c])],
         total_tuition_left |-> total_tuition_cost - tuition_aid_applied,
         total_tuition_cost |-> total_tuition_cost]

get_financial_summary(table) ==
    LET transactions == OrderByDateDesc(table)
        IsTuitionCost(t) == t.type = "Expense" /\ t.category = "Tuition"
        IsTuitionAid(t) == t.type = "Income" /\ t.allocation = "Tuition"
        IsGeneralIncome(t) == t.type = "Income" /\ t.allocation = "General"
        IsGeneralExpense(t) == t.type = "Expense" /\ t.category # "Tuition"
        total_tuition_cost == SumAmounts(SelectSeq(transactions, IsTuitionCost))
        tuition_aid_applied == SumAmounts(SelectSeq(transactions, IsTuitionAid))
        general_income == SumAmounts(SelectSeq(transactions, IsGeneralIncome))
        general_expenses == SumAmounts(SelectSeq(transactions, IsGeneralExpense))
        income_categories == GroupSum({t \in table : IsGeneralIncome(t)})
        expense_categories == GroupSum({t \in table : IsGeneralExpense(t)})
    IN  [shown |-> TRUE,
         transactions |-> transactions,
         general_income |-> general_income,
         general_expenses |-> general_expenses,
         total_balance |-> general_income - general_expenses,
         income_values |-> income_categories,
         expense_values |-> [c \in DOMAIN expense_categories |->
                                Abs(expense_categories[c])],
         total_tuition_left |-> total_tuition_cost - tuition_aid_applied,
         total_tuition_cost |-> total_tuition_cost]

\* a response that renders no dashboard
NoView ==
    [shown |-> FALSE, transactions |-> <<>>, general_income |-> 0,
     general_expenses |-> 0, total_balance |-> 0, income_values |-> <<>>,
     expense_values |-> <<>>, total_tuition_left |-> 0,
     total_tuition_cost |-> 0]

\* ------------------------------------------------------------- responses
NoArgs == [type |-> "-", category |-> "-", amount |-> 0, pct |-> 0, id |-> 0]

\* the request just served and what it answered
Response(op, c, args, status, error, submitted, view) ==
    [op |-> op, client |-> c, user |-> session[c], args |-> args,
     status |-> status, error |-> error, before |-> transaction_table,
     submitted |-> submitted, view |-> view]

\* current_user.is_authenticated
is_authenticated(c) == session[c] # NoUser

\* @login_required turning an anonymous request away
LoginRequired(op, c, args) ==
    /\ ~is_authenticated(c)
    /\ last' = Response(op, c, args, "302 login", "Unauthorized", <<>>, NoView)
    /\ UNCHANGED <<user_table, transaction_table, session>>

\* ------------------------------------------------------------------ Init
\* rows the store may hold when the application starts: the SQLite file
\* outlives the process and db.create_all() keeps what is in it
SeedRows ==
    { [id |-> 1, date |-> 1, type |-> "Income", category |-> "Salary",
       description |-> Plain("pay"), amount |-> 1000,
       allocation |-> "General", user_id |-> 1],
      [id |-> 2, date |-> 1, type |-> "Expense", category |-> "Food",
       description |-> Plain("lunch"), amount |-> 200,
       allocation |-> "None", user_id |-> 1],
      [id |-> 3, date |-> 2, type |-> "Expense", category |-> "Tuition",
       description |-> Plain("fall"), amount |-> 5000,
       allocation |-> "None", user_id |-> 2],
      [id |-> 4, date |-> 2, type |-> "Income", category |-> "Grant",
       description |-> Plain("aid"), amount |-> 300,
       allocation |-> "Tuition", user_id |-> 2],
      [id |-> 5, date |-> 2, type |-> "Expense", category |-> "Transfer",
       description |-> Plain("move"), amount |-> 1500,
       allocation |-> "General", user_id |-> 1] }

SeedUsers ==
    { [id |-> 1, username |-> "alice", password |-> "pa"],
      [id |-> 2, username |-> "bob", password |-> "pb"] }

Init ==
    /\ user_table = SeedUsers
    /\ transaction_table \in
           {S \in SUBSET SeedRows : Cardinality(S) <= MaxRows}
    /\ session = [c \in Clients |-> NoUser]
    /\ last = [op |-> "start", client |-> "c1", user |-> NoUser,
               args |-> NoArgs, status |-> "-", error |-> "none",
               before |-> transaction_table, submitted |-> <<>>,
               view |-> NoView]

\* -------------------------------------------------------------- handlers
\* POST /login
login(c, username, password) ==
    LET found == {u \in user_table : u.username = username}
        user == CHOOSE u \in found : TRUE
    IN  /\ IF is_authenticated(c)
           THEN /\ session' = session
                /\ last' = Response("login", c, NoArgs, "302 index", "none",
                                    <<>>, NoView)
           ELSE IF found # {} /\ user.password = password
           THEN /\ session' = [session EXCEPT ![c] = user.id]
                /\ last' = Response("login", c, NoArgs, "302 index", "none",
                                    <<>>, NoView)
           ELSE /\ session' = session
                /\ last' = Response("login", c, NoArgs, "200 login",
                                    "LoginFailed", <<>>, NoView)
        /\ UNCHANGED <<user_table, transaction_table>>

\* POST /register
register(c, username, password) ==
    LET existing_user == {u \in user_table : u.username = username}
        new_user == [id |-> NextId(user_table), username |-> username,
                     password |-> password]
    IN  /\ IF is_authenticated(c)
           THEN /\ user_table' = user_table
                /\ last' = Response("register", c, NoArgs, "302 index",
                                    "none", <<>>, NoView)
           ELSE IF existing_user # {}
           THEN /\ user_table' = user_table
                /\ last' = Response("register", c, NoArgs, "302 register",
                                    "UsernameExists", <<>>, NoView)
           ELSE /\ user_table' = user_table \cup {new_user}
                /\ last' = Response("register", c, NoArgs, "302 login",
                                    "none", <<>>, NoView)
        /\ UNCHANGED <<transaction_table, session>>

\* GET /logout
logout(c) ==
    /\ session' = [session EXCEPT ![c] = NoUser]
    /\ last' = Response("logout", c, NoArgs, "302 login", "none", <<>>, NoView)
    /\ UNCHANGED <<user_table, transaction_table>>

\* GET /
index_get(c) ==
    \/ LoginRequired("index_get", c, NoArgs)
    \/ /\ is_authenticated(c)
       /\ last' = Response("index_get", c, NoArgs, "200 index", "none", <<>>,
                           get_financial_summary(transaction_table))
       /\ UNCHANGED <<user_table, transaction_table, session>>

\* POST /
index_post(c, type, category, description, amount, pct) ==
    LET args == [type |-> type, category |-> category, amount |-> amount,
                 pct |-> pct, id |-> 0]
        general_pct == 100 - pct
        split == type = "Income" /\ pct > 0 /\ pct < 100
        tuition_transaction ==
            Transaction(Today, "Income", category,
                        Annotated(description, "Tuition Allocation", pct),
                        (amount * pct) \div 100, "Tuition")
        general_transaction ==
            Transaction(Today, "Income", category,
                        Annotated(description, "General Allocation", general_pct),
                        (amount * general_pct) \div 100, "General")
        allocation == IF type = "Income"
                      THEN IF pct = 100 THEN "Tuition" ELSE "General"
                      ELSE "None"
        new_transaction ==
            Transaction(Today, type, category, Plain(description), amount,
                        allocation)
        done == Commit(transaction_table, <<new_transaction>>)
    IN  \/ LoginRequired("index_post", c, args)
        \/ /\ is_authenticated(c)
           /\ IF split
              THEN \* allocation is unbound at line 270: UnboundLocalError, the
                   \* two added rows are dropped with the session
                   /\ transaction_table' = transaction_table
                   /\ last' = Response("index_post", c, args, "500",
                                       "UnboundLocalError",
                                       <<tuition_transaction,
                                         general_transaction>>, NoView)
              ELSE /\ transaction_table' = done.table
                   /\ last' = Response("index_post", c, args,
                                       IF done.ok THEN "302 index" ELSE "500",
                                       IF done.ok THEN "none"
                                                  ELSE "IntegrityError",
                                       <<new_transaction>>, NoView)
           /\ UNCHANGED <<user_table, session>>

\* a plausible slip: the owner is set on the first leg only and each leg is
\* committed on its own
transfer_to_tuition_per_leg(c, amount) ==
    LET args == [NoArgs EXCEPT !.amount = amount]
        expense_transaction ==
            [Transaction(Today, "Expense", "Transfer",
                         Plain("Transfer to Tuition Fund (from General)"),
                         amount, "General") EXCEPT !.user_id = session[c]]
        income_transaction ==
            Transaction(Today, "Income", "Transfer",
                        Plain("Tuition Payment (from General Balance)"),
                        amount, "Tuition")
        first == Commit(transaction_table, <<expense_transaction>>)
        done == Commit(first.table, <<income_transaction>>)
    IN  \/ LoginRequired("transfer", c, args)
        \/ /\ is_authenticated(c)
           /\ transaction_table' = done.table
           /\ last' = Response("transfer", c, args,
                               IF done.ok THEN "302 index" ELSE "500",
                               IF done.ok THEN "none" ELSE "IntegrityError",
                               <<expense_transaction, income_transaction>>,
                               NoView)
           /\ UNCHANGED <<user_table, session>>

\* POST /transfer_to_tuition
transfer_to_tuition(c, amount) ==
    LET args == [NoArgs EXCEPT !.amount = amount]
        expense_transaction ==
            Transaction(Today, "Expense", "Transfer",
                        Plain("Transfer to Tuition Fund (from General)"),
                        amount, "General")
        income_transaction ==
            Transaction(Today, "Income", "Transfer",
                        Plain("Tuition Payment (from General Balance)"),
                        amount, "Tuition")
        done == Commit(transaction_table,
                       <<expense_transaction, income_transaction>>)
    IN  \/ LoginRequired("transfer", c, args)
        \/ /\ is_authenticated(c)
           /\ transaction_table' = done.table
           /\ last' = Response("transfer", c, args,
                               IF done.ok THEN "302 index" ELSE "500",
                               IF done.ok THEN "none" ELSE "IntegrityError",
                               <<expense_transaction, income_transaction>>,
                               NoView)
           /\ UNCHANGED <<user_table, session>>

\* a plausible slip: the row is looked up with first_or_404(), which does
\* not look at the id
delete_transaction_first_or_404(c, id) ==
    LET found == IF transaction_table = {} THEN {}
                 ELSE {CHOOSE t \in transaction_table :
                          \A q \in transaction_table : t.id <= q.id}
        args == [NoArgs EXCEPT !.id = id]
    IN  /\ IF found = {}
           THEN /\ transaction_table' = transaction_table
                /\ last' = Response("delete", c, args, "404", "NotFound",
                                    <<>>, NoView)
           ELSE /\ transaction_table' = transaction_table \ found
                /\ last' = Response("delete", c, args, "302 index", "none",
                                    <<>>, NoView)
        /\ UNCHANGED <<user_table, session>>

\* POST /delete/<id>; the route carries no @login_required
delete_transaction(c, id) ==
    LET found == {t \in transaction_table : t.id = id}
        args == [NoArgs EXCEPT !.id = id]
    IN  /\ IF found = {}
           THEN \* get_or_404 aborts the request
                /\ transaction_table' = transaction_table
                /\ last' = Response("delete", c, args, "404", "NotFound",
                                    <<>>, NoView)
           ELSE /\ transaction_table' = transaction_table \ found
                /\ last' = Response("delete", c, args, "302 index", "none",
                                    <<>>, NoView)
        /\ UNCHANGED <<user_table, session>>

Next ==
    \/ \E c \in Clients, u \in Usernames, p \in Passwords : login(c, u, p)
    \/ \E c \in Clients, u \in Usernames, p \in Passwords : register(c, u, p)
    \/ \E c \in Clients : logout(c)
    \/ \E c \in Clients : index_get(c)
    \/ \E c \in Clients, ty \in Types, cat \in Categories, a \in Amounts,
          p \in Percents : index_post(c, ty, cat, "memo", a, p)
    \/ \E c \in Clients, a \in TransferAmounts : transfer_to_tuition(c, a)
    \/ \E c \in Clients, i \in DeleteIds : delete_transaction(c, i)

Spec == Init /\ [][Next]_vars

\* ---------------------------------------------------------------- claims
\* the rows a request added to the table
Added == transaction_table \ last.before

\* a request served for a logged-in principal
Authenticated(op) == last.op = op /\ last.user # NoUser

RECURSIVE SetSum(_)
SetSum(rows) ==
    IF rows = {} THEN 0
    ELSE LET r == CHOOSE q \in rows : TRUE
         IN  r.amount + SetSum(rows \ {r})

\* C1: an Income add with 0 < tuition_percent < 100 and amount A >= 0 leaves
\* the old rows in place and adds exactly two Income rows, a Tuition one of
\* A*p/100 and a General one of A*(100-p)/100.
C1_SplitPersistsTwo ==
    (/\ Authenticated("index_post")
     /\ last.args.type = "Income"
     /\ last.args.pct > 0 /\ last.args.pct < 100
     /\ last.args.amount >= 0)
    => /\ last.before \subseteq transaction_table
       /\ Cardinality(Added) = 2
       /\ \E t \in Added, g \in Added :
             /\ t.type = "Income" /\ t.allocation = "Tuition"
             /\ t.amount = (last.args.amount * last.args.pct) \div 100
             /\ g.type = "Income" /\ g.allocation = "General"
             /\ g.amount = (last.args.amount * (100 - last.args.pct)) \div 100
             /\ t.amount + g.amount = last.args.amount

\* C2: writes of several rows are all-or-nothing: a request that answered
\* with an error left the table as it found it, and no request that wrote
\* two rows left exactly one of them in the table.
C2_AtomicWrites ==
    /\ last.error # "none" => transaction_table = last.before
    /\ Len(last.submitted) = 2 => Cardinality(Added) # 1

\* a transfer of two legs failed at commit and the table is as before
C2_Witness ==
    /\ Authenticated("transfer")
    /\ Len(last.submitted) = 2
    /\ last.error = "IntegrityError"
    /\ transaction_table = last.before

\* C3: a transfer of a positive amount A adds exactly an Expense/Transfer/
\* General row and an Income/Transfer/Tuition row of amount A, and lowers
\* the summary's general balance and remaining tuition by A each.
C3_TransferPersistsPair ==
    (Authenticated("transfer") /\ last.args.amount > 0)
    => /\ last.before \subseteq transaction_table
       /\ Cardinality(Added) = 2
       /\ \E e \in Added, i \in Added :
             /\ e.type = "Expense" /\ e.category = "Transfer"
             /\ e.allocation = "General" /\ e.amount = last.args.amount
             /\ i.type = "Income" /\ i.category = "Transfer"
             /\ i.allocation = "Tuition" /\ i.amount = last.args.amount
       /\ get_financial_summary(transaction_table).total_balance
             = get_financial_summary(last.before).total_balance
               - last.args.amount
       /\ get_financial_summary(transaction_table).total_tuition_left
             = get_financial_summary(last.before).total_tuition_left
               - last.args.amount

C5_InvalidAmountRejected ==
    /\ \A t \in transaction_table : t.amount >= 0
    /\ (\/ Authenticated("index_post") /\ last.args.amount < 0
        \/ Authenticated("transfer") /\ last.args.amount <= 0)
       => /\ last.error = "InvalidAmount"
          /\ last.submitted = <<>>
          /\ transaction_table = last.before

C7_OwnerIsRequester ==
    /\ \A t \in transaction_table : t.user_id # NoUser
    /\ last.op \in {"index_post", "transfer"}
       => /\ \A k \in 1 .. Len(last.submitted) :
                last.submitted[k].user_id = last.user
          /\ \A t \in Added : t.user_id = last.user

\* C8: an Income add with tuition_percent 100 (resp. 0) and amount A >= 0
\* adds exactly one row, allocated to Tuition (resp. General), with the full
\* amount and the description as given.
C8_WholeIncomePersistsOne ==
    (/\ Authenticated("index_post")
     /\ last.args.type = "Income"
     /\ last.args.pct \in {0, 100}
     /\ last.args.amount >= 0)
    => /\ last.before \subseteq transaction_table
       /\ Cardinality(Added) = 1
       /\ \A t \in Added :
             /\ t.type = "Income"
             /\ t.allocation = (IF last.args.pct = 100 THEN "Tuition"
                                                      ELSE "General")
             /\ t.amount = last.args.amount
             /\ t.description.note = "none"

\* C9: the dashboard's general balance is the General income minus the
\* non-Tuition expenses, its remaining tuition is the Tuition expenses minus
\* the Tuition-allocated income, neither clamped at zero; on the empty table
\* every figure is 0 and every list and mapping is empty.
C9_SummaryFigures ==
    (Authenticated("index_get") /\ last.view.shown)
    => LET rows == last.before
           GeneralIncome == {t \in rows : t.type = "Income"
                                          /\ t.allocation = "General"}
           GeneralExpenses == {t \in rows : t.type = "Expense"
                                            /\ t.category # "Tuition"}
           TuitionCost == {t \in rows : t.type = "Expense"
                                        /\ t.category = "Tuition"}
           TuitionAid == {t \in rows : t.type = "Income"
                                       /\ t.allocation = "Tuition"}
       IN  /\ last.view.total_balance
                 = SetSum(GeneralIncome) - SetSum(GeneralExpenses)
           /\ last.view.total_tuition_left
                 = SetSum(TuitionCost) - SetSum(TuitionAid)
           /\ rows = {} =>
                 /\ last.view.general_income = 0
                 /\ last.view.general_expenses = 0
                 /\ last.view.total_balance = 0
                 /\ last.view.total_tuition_left = 0
                 /\ last.view.total_tuition_cost = 0
                 /\ last.view.transactions = <<>>
                 /\ DOMAIN last.view.income_values = {}
                 /\ DOMAIN last.view.expense_values = {}

\* a dashboard whose general balance and remaining tuition are both below 0
C9_Witness ==
    /\ Authenticated("index_get")
    /\ last.view.shown
    /\ last.view.total_balance < 0
    /\ last.view.total_tuition_left < 0

====
